---- MODULE Spec2Model ----
(***************************************************************************)
(* The bounded-concurrency batch orchestrator of app/main.py:              *)
(* batch_upload_resumes fans a list of uploaded files out to one           *)
(* process_single_resume task per file; every task saves its upload to     *)
(* temp_<filename>, runs ingest_pdf and parse_resume inside                *)
(* `async with semaphore`, and removes the temp file in its finally block. *)
(*                                                                         *)
(* One action is one uninterrupted run of a coroutine between two          *)
(* suspension points of the asyncio event loop (single-threaded,           *)
(* cooperative).  The semaphore is asyncio.Semaphore as main.py            *)
(* constructs it (counter _value, FIFO deque _waiters of futures).         *)
(***************************************************************************)
EXTENDS Integers, Sequences, FiniteSets, TLC

VARIABLES
    files,          \* the List[UploadFile] of the batch request: their filenames
    single,         \* the filename of the /upload request, "" when there is none
    batch,          \* position of batch_upload_resumes
    pc,             \* position of each process_single_resume task
    cancelReq,      \* task.cancel() was called and CancelledError is not yet delivered
    value,          \* semaphore._value
    waiters,        \* semaphore._waiters: the tasks whose future is in the deque
    fs,             \* the working directory: path -> task that wrote the file, 0 = absent
    acquires,       \* per task: returns of semaphore.acquire()
    releases,       \* per task: calls of semaphore.release()
    removes,        \* calls of os.remove(temp_path) so far
    lastFault,      \* the stage whose exception the except block caught last
    query,          \* position of the query_resume request
    overtook,       \* a task returned its record while a task created before it had not ended
    final_results   \* the list batch_upload_resumes returns

vars == <<files, single, batch, pc, cancelReq, value, waiters, fs, acquires, releases,
          removes, lastFault, query, overtook, final_results>>

---------------------------------------------------------------------------
(* Program constants *)

\* main.py:18  CONCURRENCY_LIMIT = 5
CONCURRENCY_LIMIT == 5

\* main.py:75  if len(files) > 100
MAX_BATCH == 100

(* Bounds of the model *)

\* longest batch whose filenames are drawn freely
ShortFiles == 3

\* longest batch of repeated filenames (below the size limit): one more task
\* than the semaphore admits
MaxFiles == 6

\* the filenames an upload may carry
Filenames == {"a.pdf", "b.pdf", "c.txt"}

\* the filename repeated in the two batches at the size limit
LongName == "c.txt"

---------------------------------------------------------------------------
(* Pure helpers *)

\* main.py:26  file.filename.endswith(".pdf")
EndsWithPdf(name) ==
    /\ Len(name) >= 4
    /\ SubSeq(name, Len(name) - 3, Len(name)) = ".pdf"

\* main.py:29  temp_path = f"temp_{file.filename}"
temp_path(name) == "temp_" \o name

Paths == {temp_path(f) : f \in Filenames}

Jobs == 1..Len(files)

\* main.py:64-67  the task of the /upload request: upload_resume awaits
\* process_single_resume directly, outside any batch
UploadJob == MAX_BATCH + 2

\* every process_single_resume call of the run
Tasks == Jobs \cup (IF single = "" THEN {} ELSE {UploadJob})

\* file.filename of task j
FileOf(j) == IF j = UploadJob THEN single ELSE files[j]

PathOf(j) == temp_path(FileOf(j))

\* how a task ends: the record is returned ("ok"), HTTPException 400
\* ("rejected"), HTTPException 500 ("failed"), an exception raised before the
\* try block ("crashed"), CancelledError ("cancelled"), or the task is
\* cancelled before its first step ("cancelled_unstarted")
Terminal == {"ok", "rejected", "failed", "crashed", "cancelled", "cancelled_unstarted"}

\* the tasks between `async with semaphore` entry and exit
InBlock == {"ingest", "parse"}

IsTerminal(j) == pc[j] \in Terminal

AllDone == \A j \in Jobs : IsTerminal(j)

\* every task gather created has run up to its first suspension: the event
\* loop's ready queue is FIFO, so the first steps of the tasks come before the
\* callbacks that complete a stage and before the steps of another request
AllStarted == batch = "gathering" => \A j \in Jobs : pc[j] # "new"

\* the order in which the loop delivers CancelledError: the tasks already
\* scheduled (woken) first, then the others in the order gather cancelled them
CancelTurn(j) ==
    /\ cancelReq[j]
    /\ \/ pc[j] = "woken"
       \/ \A i \in Jobs : cancelReq[i] => (pc[i] # "woken" /\ i >= j)

RECURSIVE Uniform(_, _)
Uniform(name, n) == IF n = 0 THEN <<>> ELSE Append(Uniform(name, n - 1), name)

\* a.pdf, b.pdf, a.pdf, ...
Alternating(n) == [i \in 1..n |-> IF i % 2 = 1 THEN "a.pdf" ELSE "b.pdf"]

RECURSIVE SeqsUpTo(_, _)
SeqsUpTo(S, n) ==
    IF n = 0 THEN {<<>>}
    ELSE LET shorter == SeqsUpTo(S, n - 1)
         IN  shorter \cup {Append(s, x) : s \in {t \in shorter : Len(t) = n - 1}, x \in S}

\* the batches a request may carry
Batches ==
    SeqsUpTo(Filenames, ShortFiles)
        \cup {Uniform("a.pdf", n) : n \in 0..MaxFiles}
        \cup {Alternating(n) : n \in 0..MaxFiles}
        \cup {Uniform(LongName, MAX_BATCH), Uniform(LongName, MAX_BATCH + 1)}

RECURSIVE Without(_, _)
Without(s, j) ==
    IF s = <<>> THEN <<>>
    ELSE IF Head(s) = j THEN Tail(s)
    ELSE <<Head(s)>> \o Without(Tail(s), j)

---------------------------------------------------------------------------
(* asyncio.Semaphore, the object main.py:19 constructs and main.py:36 uses *)

\* a waiter's future: pending, holding a result, or cancelled
FutPending(p, c, w)   == p[w] = "waiting" /\ ~c[w]
FutCancelled(p, c, w) == p[w] = "waiting" /\ c[w]

\* locked() without its test of the counter
locked_ignoring_value ==
    \E i \in 1..Len(waiters) : ~FutCancelled(pc, cancelReq, waiters[i])

\* Semaphore.locked()
locked ==
    \/ value = 0
    \/ \E i \in 1..Len(waiters) : ~FutCancelled(pc, cancelReq, waiters[i])

\* the last waiter whose future is not done, instead of the first
FirstPending_last(p, c, ws) ==
    LET idx == {i \in 1..Len(ws) : FutPending(p, c, ws[i])}
    IN  IF idx = {} THEN 0 ELSE CHOOSE i \in idx : \A k \in idx : i >= k

\* index in ws of the first waiter whose future is not done, 0 if none
FirstPending(p, c, ws) ==
    LET idx == {i \in 1..Len(ws) : FutPending(p, c, ws[i])}
    IN  IF idx = {} THEN 0 ELSE CHOOSE i \in idx : \A k \in idx : i <= k

\* _wake_up_next() that wakes nobody
wake_up_next_nobody(v, p, c, ws) == [value |-> v, pc |-> p]

\* Semaphore._wake_up_next(): [value, pc] after it ran on counter v, positions p
wake_up_next(v, p, c, ws) ==
    LET i == FirstPending(p, c, ws)
    IN  IF i = 0 THEN [value |-> v, pc |-> p]
        ELSE [value |-> v - 1, pc |-> [p EXCEPT ![ws[i]] = "woken"]]

\* Semaphore.release()
release(v, p, c, ws) == wake_up_next(v + 1, p, c, ws)

---------------------------------------------------------------------------
(* process_single_resume *)

\* main.py:60-62  finally: if os.path.exists(temp_path): os.remove(temp_path)
Cleanup(j) ==
    IF fs[PathOf(j)] # 0
    THEN /\ fs' = [fs EXCEPT ![PathOf(j)] = 0]
         /\ removes' = removes + 1
    ELSE UNCHANGED <<fs, removes>>

\* main.py:36-62  leaving the `async with semaphore` block with outcome `out`:
\* __aexit__ releases, then the finally block cleans up
LeaveBlock(j, out) ==
    LET r == release(value, [pc EXCEPT ![j] = out], cancelReq, waiters)
    IN  /\ value' = r.value
        /\ pc' = r.pc
        /\ releases' = [releases EXCEPT ![j] = @ + 1]
        /\ Cleanup(j)

\* main.py:16-19  the module is loaded and the request has arrived: no task
\* exists, the semaphore is full, the working directory holds no temp file
AtStart ==
    /\ batch = "idle"
    /\ pc = [j \in Tasks |-> "new"]
    /\ cancelReq = [j \in Tasks |-> FALSE]
    /\ value = CONCURRENCY_LIMIT
    /\ waiters = <<>>
    /\ fs = [p \in Paths |-> 0]
    /\ acquires = [j \in Tasks |-> 0]
    /\ releases = [j \in Tasks |-> 0]
    /\ removes = 0
    /\ lastFault = "none"
    /\ query = "idle"
    /\ overtook = FALSE
    /\ final_results = <<>>

Init == files \in Batches /\ single = "" /\ AtStart

\* the size check off by one
TooLarge_off_by_one(n) == n >= MAX_BATCH

\* main.py:75  len(files) > 100
TooLarge(n) == n > MAX_BATCH

\* main.py:75-76  the size check of batch_upload_resumes: HTTPException 400
BatchReject ==
    /\ batch = "idle"
    /\ TooLarge(Len(files))
    /\ batch' = "rejected"
    /\ UNCHANGED <<files, single, query, overtook, pc, cancelReq, value, waiters,
                   fs, acquires, releases, removes, lastFault, final_results>>

\* main.py:79-80  the tasks are created and gathered
BatchAccept ==
    /\ batch = "idle"
    /\ ~TooLarge(Len(files))
    /\ batch' = "gathering"
    /\ UNCHANGED <<files, single, query, overtook, pc, cancelReq, value, waiters,
                   fs, acquires, releases, removes, lastFault, final_results>>

\* main.py:79-80  the event loop runs the tasks gather created in the order it
\* created them
NextToStart(j) ==
    /\ pc[j] = "new"
    /\ IF j \in Jobs
       THEN /\ batch = "gathering"
            /\ \A i \in Jobs : i < j => pc[i] # "new"
       ELSE AllStarted

\* the filename check placed after the upload is saved
StartReject_after_save(j) ==
    /\ NextToStart(j)
    /\ ~EndsWithPdf(FileOf(j))
    /\ fs' = [fs EXCEPT ![PathOf(j)] = j]
    /\ pc' = [pc EXCEPT ![j] = "rejected"]
    /\ UNCHANGED <<files, single, query, overtook, batch, cancelReq, value, waiters,
                   acquires, releases, removes, lastFault, final_results>>

\* main.py:26-27  not a PDF: HTTPException 400
StartReject(j) ==
    /\ NextToStart(j)
    /\ ~EndsWithPdf(FileOf(j))
    /\ pc' = [pc EXCEPT ![j] = "rejected"]
    /\ UNCHANGED <<files, single, query, overtook, batch, cancelReq, value, waiters,
                   fs, acquires, releases, removes, lastFault, final_results>>

\* main.py:32-33  open(temp_path, "wb") created the file and copyfileobj raised:
\* the exception leaves process_single_resume before its try block
StartCopyFault(j) ==
    /\ NextToStart(j)
    /\ EndsWithPdf(FileOf(j))
    /\ fs' = [fs EXCEPT ![PathOf(j)] = j]
    /\ pc' = [pc EXCEPT ![j] = "crashed"]
    /\ UNCHANGED <<files, single, query, overtook, batch, cancelReq, value, waiters,
                   acquires, releases, removes, lastFault, final_results>>

\* an /upload request that enters the stages without the shared semaphore
StartAcquire_upload_ungated(j) ==
    /\ NextToStart(j)
    /\ EndsWithPdf(FileOf(j))
    /\ j = UploadJob \/ ~locked
    /\ fs' = [fs EXCEPT ![PathOf(j)] = j]
    /\ value' = IF j = UploadJob THEN value ELSE value - 1
    /\ acquires' = [acquires EXCEPT ![j] = @ + 1]
    /\ pc' = [pc EXCEPT ![j] = "ingest"]
    /\ UNCHANGED <<files, single, query, overtook, batch, cancelReq, waiters,
                   releases, removes, lastFault, final_results>>

\* main.py:29-47  the file is saved, the semaphore is free: acquire returns at
\* once and the task suspends in ingest_pdf
StartAcquire(j) ==
    /\ NextToStart(j)
    /\ EndsWithPdf(FileOf(j))
    /\ ~locked
    /\ fs' = [fs EXCEPT ![PathOf(j)] = j]
    /\ value' = value - 1
    /\ acquires' = [acquires EXCEPT ![j] = @ + 1]
    /\ pc' = [pc EXCEPT ![j] = "ingest"]
    /\ UNCHANGED <<files, single, query, overtook, batch, cancelReq, waiters,
                   releases, removes, lastFault, final_results>>

\* a task that joins the deque before it saved its upload
StartWait_before_save(j) ==
    /\ NextToStart(j)
    /\ EndsWithPdf(FileOf(j))
    /\ locked
    /\ waiters' = Append(waiters, j)
    /\ pc' = [pc EXCEPT ![j] = "waiting"]
    /\ UNCHANGED <<files, single, query, overtook, batch, cancelReq, value, fs,
                   acquires, releases, removes, lastFault, final_results>>

\* main.py:29-36  the file is saved, the semaphore is locked: the task's future
\* joins the deque and the task suspends in acquire
StartWait(j) ==
    /\ NextToStart(j)
    /\ EndsWithPdf(FileOf(j))
    /\ locked
    /\ fs' = [fs EXCEPT ![PathOf(j)] = j]
    /\ waiters' = Append(waiters, j)
    /\ pc' = [pc EXCEPT ![j] = "waiting"]
    /\ UNCHANGED <<files, single, query, overtook, batch, cancelReq, value,
                   acquires, releases, removes, lastFault, final_results>>

\* main.py:36-47  a woken waiter runs: acquire returns and ingest_pdf is called
Resume(j) ==
    /\ AllStarted
    /\ pc[j] = "woken"
    /\ ~cancelReq[j]
    /\ LET ws == Without(waiters, j)
           r  == IF value > 0
                 THEN wake_up_next(value, [pc EXCEPT ![j] = "ingest"], cancelReq, ws)
                 ELSE [value |-> value, pc |-> [pc EXCEPT ![j] = "ingest"]]
       IN  /\ waiters' = ws
           /\ value' = r.value
           /\ pc' = r.pc
    /\ acquires' = [acquires EXCEPT ![j] = @ + 1]
    /\ UNCHANGED <<files, single, query, overtook, batch, cancelReq, fs, releases,
                   removes, lastFault, final_results>>

\* main.py:47-51  ingest_pdf returned: state.update, parse_resume is called
IngestOk(j) ==
    /\ AllStarted
    /\ pc[j] = "ingest"
    /\ ~cancelReq[j]
    /\ pc' = [pc EXCEPT ![j] = "parse"]
    /\ UNCHANGED <<files, single, query, overtook, batch, cancelReq, value, waiters,
                   fs, acquires, releases, removes, lastFault, final_results>>

\* the failure path without the release of `async with`
StageFault_no_release(j) ==
    /\ AllStarted
    /\ pc[j] \in InBlock
    /\ ~cancelReq[j]
    /\ lastFault' = pc[j]
    /\ pc' = [pc EXCEPT ![j] = "failed"]
    /\ Cleanup(j)
    /\ UNCHANGED <<files, single, query, overtook, batch, cancelReq, value, waiters,
                   acquires, releases, final_results>>

\* a failure of ingest_pdf that is swallowed: parse_resume runs on the state
\* ingest_pdf did not update
StageFault_ingest_swallowed(j) ==
    /\ AllStarted
    /\ pc[j] \in InBlock
    /\ ~cancelReq[j]
    /\ lastFault' = pc[j]
    /\ IF pc[j] = "ingest"
       THEN /\ pc' = [pc EXCEPT ![j] = "parse"]
            /\ UNCHANGED <<value, releases, fs, removes>>
       ELSE LeaveBlock(j, "failed")
    /\ UNCHANGED <<files, single, query, overtook, batch, cancelReq, waiters,
                   acquires, final_results>>

\* main.py:55-62  ingest_pdf or parse_resume raised: HTTPException 500
StageFault(j) ==
    /\ AllStarted
    /\ pc[j] \in InBlock
    /\ ~cancelReq[j]
    /\ lastFault' = pc[j]
    /\ LeaveBlock(j, "failed")
    /\ UNCHANGED <<files, single, query, overtook, batch, cancelReq, waiters,
                   acquires, final_results>>

\* main.py:51-53, 60-62  parse_resume returned: the record is returned
ParseOk(j) ==
    /\ AllStarted
    /\ pc[j] = "parse"
    /\ ~cancelReq[j]
    /\ LeaveBlock(j, "ok")
    /\ overtook' = (overtook \/ (j \in Jobs /\ \E i \in Jobs : i < j /\ ~IsTerminal(i)))
    /\ UNCHANGED <<files, single, query, batch, cancelReq, waiters, acquires,
                   lastFault, final_results>>

\* main.py:80  the request is cancelled while batch_upload_resumes awaits
\* gather: gather cancels every task that is not done; a task that has not run
\* yet ends without running
BatchCancel ==
    /\ batch = "gathering"
    /\ ~AllDone
    /\ batch' = "cancelling"
    /\ cancelReq' = [j \in Tasks |-> j \in Jobs /\ ~IsTerminal(j) /\ pc[j] # "new"]
    /\ pc' = [j \in Tasks |->
                IF j \in Jobs /\ pc[j] = "new" THEN "cancelled_unstarted" ELSE pc[j]]
    /\ UNCHANGED <<files, single, query, overtook, value, waiters, fs, acquires,
                   releases, removes, lastFault, final_results>>

\* a cancelled waiter that gives a slot back whether or not it held one
CancelAtGate_always_gives_back(j) ==
    /\ CancelTurn(j)
    /\ pc[j] \in {"waiting", "woken"}
    /\ LET ws == Without(waiters, j)
           p  == [pc EXCEPT ![j] = "cancelled"]
           c  == [cancelReq EXCEPT ![j] = FALSE]
           r  == wake_up_next(value + 1, p, c, ws)
       IN  /\ waiters' = ws
           /\ cancelReq' = c
           /\ value' = r.value
           /\ pc' = r.pc
    /\ Cleanup(j)
    /\ UNCHANGED <<files, single, query, overtook, batch, acquires, releases,
                   lastFault, final_results>>

\* main.py:36, 60-62  CancelledError reaches a task suspended in acquire: a
\* future that already held the slot gives it back; the finally block cleans up
CancelAtGate(j) ==
    /\ CancelTurn(j)
    /\ pc[j] \in {"waiting", "woken"}
    /\ LET ws == Without(waiters, j)
           p  == [pc EXCEPT ![j] = "cancelled"]
           c  == [cancelReq EXCEPT ![j] = FALSE]
           r  == IF pc[j] = "woken"
                 THEN wake_up_next(value + 1, p, c, ws)
                 ELSE [value |-> value, pc |-> p]
       IN  /\ waiters' = ws
           /\ cancelReq' = c
           /\ value' = r.value
           /\ pc' = r.pc
    /\ Cleanup(j)
    /\ UNCHANGED <<files, single, query, overtook, batch, acquires, releases,
                   lastFault, final_results>>

\* cancellation inside the block without the release of `async with`
CancelInBlock_no_release(j) ==
    /\ CancelTurn(j)
    /\ pc[j] \in InBlock
    /\ cancelReq' = [cancelReq EXCEPT ![j] = FALSE]
    /\ pc' = [pc EXCEPT ![j] = "cancelled"]
    /\ Cleanup(j)
    /\ UNCHANGED <<files, single, query, overtook, batch, value, waiters, acquires,
                   releases, lastFault, final_results>>

\* cancellation inside the block with the cleanup in the except block, which
\* CancelledError passes by
CancelInBlock_no_cleanup(j) ==
    /\ CancelTurn(j)
    /\ pc[j] \in InBlock
    /\ cancelReq' = [cancelReq EXCEPT ![j] = FALSE]
    /\ LET r == release(value, [pc EXCEPT ![j] = "cancelled"], cancelReq', waiters)
       IN  /\ value' = r.value
           /\ pc' = r.pc
    /\ releases' = [releases EXCEPT ![j] = @ + 1]
    /\ UNCHANGED <<files, single, query, overtook, batch, waiters, fs, removes,
                   acquires, lastFault, final_results>>

\* main.py:36-62  CancelledError reaches a task suspended in a stage:
\* __aexit__ releases, `except Exception` does not catch it, finally cleans up
CancelInBlock(j) ==
    /\ CancelTurn(j)
    /\ pc[j] \in InBlock
    /\ cancelReq' = [cancelReq EXCEPT ![j] = FALSE]
    /\ LET r == release(value, [pc EXCEPT ![j] = "cancelled"], cancelReq', waiters)
       IN  /\ value' = r.value
           /\ pc' = r.pc
    /\ releases' = [releases EXCEPT ![j] = @ + 1]
    /\ Cleanup(j)
    /\ UNCHANGED <<files, single, query, overtook, batch, waiters, acquires,
                   lastFault, final_results>>

\* the filter that keeps every outcome
Successes_keep_all(js) == js

\* the filter that collects the records last task first
RECURSIVE Successes_last_first(_)
Successes_last_first(js) ==
    IF js = <<>> THEN <<>>
    ELSE IF pc[Head(js)] = "ok"
         THEN Successes_last_first(Tail(js)) \o <<Head(js)>>
         ELSE Successes_last_first(Tail(js))

\* the filter that stops after as many tasks as the semaphore admits
RECURSIVE Successes_up_to_limit(_)
Successes_up_to_limit(js) ==
    IF js = <<>> THEN <<>>
    ELSE IF pc[Head(js)] = "ok" /\ Head(js) <= CONCURRENCY_LIMIT
         THEN <<Head(js)>> \o Successes_up_to_limit(Tail(js))
         ELSE Successes_up_to_limit(Tail(js))

\* main.py:83-89  the outcomes that are exceptions are skipped; a record is
\* named by the task whose parse_resume returned it
RECURSIVE Successes(_)
Successes(js) ==
    IF js = <<>> THEN <<>>
    ELSE IF pc[Head(js)] = "ok"
         THEN <<Head(js)>> \o Successes(Tail(js))
         ELSE Successes(Tail(js))

\* a gather that returns as soon as one task has ended
BatchReturn_first_completed ==
    /\ batch = "gathering"
    /\ \E j \in Jobs : IsTerminal(j)
    /\ final_results' = Successes([j \in Jobs |-> j])
    /\ batch' = "returned"
    /\ UNCHANGED <<files, single, query, overtook, pc, cancelReq, value, waiters,
                   fs, acquires, releases, removes, lastFault>>

\* main.py:80-91  gather is done: the list of records is returned
BatchReturn ==
    /\ batch = "gathering"
    /\ AllDone
    /\ final_results' = Successes([j \in Jobs |-> j])
    /\ batch' = "returned"
    /\ UNCHANGED <<files, single, query, overtook, pc, cancelReq, value, waiters,
                   fs, acquires, releases, removes, lastFault>>

\* main.py:80  gather, cancelled, raises CancelledError out of the handler
BatchCancelled ==
    /\ batch = "cancelling"
    /\ AllDone
    /\ batch' = "cancelled"
    /\ UNCHANGED <<files, single, query, overtook, pc, cancelReq, value, waiters,
                   fs, acquires, releases, removes, lastFault, final_results>>

Next ==
    \/ BatchReject
    \/ BatchAccept
    \/ BatchCancel
    \/ BatchReturn
    \/ BatchCancelled
    \/ \E j \in Jobs : StartReject(j)
    \/ \E j \in Jobs : StartCopyFault(j)
    \/ \E j \in Jobs : StartAcquire(j)
    \/ \E j \in Jobs : StartWait(j)
    \/ \E j \in Jobs : Resume(j)
    \/ \E j \in Jobs : IngestOk(j)
    \/ \E j \in Jobs : StageFault(j)
    \/ \E j \in Jobs : ParseOk(j)
    \/ \E j \in Jobs : CancelAtGate(j)
    \/ \E j \in Jobs : CancelInBlock(j)

Spec == Init /\ [][Next]_vars

---------------------------------------------------------------------------
(* query_resume, served by the same event loop while a batch is in flight *)

\* what a query leaves alone: the batch, its tasks, the semaphore, the files
batchVars == <<files, single, batch, pc, cancelReq, value, waiters, fs, acquires, releases,
               removes, lastFault, overtook, final_results>>

\* a query that takes a slot of the semaphore before it asks
QueryStart_gated ==
    /\ query = "idle"
    /\ ~locked
    /\ value' = value - 1
    /\ query' = "retrieving"
    /\ UNCHANGED <<files, single, batch, pc, cancelReq, waiters, fs, acquires,
                   releases, removes, lastFault, overtook, final_results>>

\* main.py:96-104, helpers.py:75-76  the state is built, ask_question is
\* called and suspends in retriever.ainvoke
QueryStart ==
    /\ query = "idle"
    /\ query' = "retrieving"
    /\ UNCHANGED batchVars

\* helpers.py:76-85  the documents are back; the chain is invoked
QueryRetrieved ==
    /\ query = "retrieving"
    /\ query' = "generating"
    /\ UNCHANGED batchVars

\* helpers.py:85-87, main.py:104-105  the answer is returned
QueryAnswered ==
    /\ query = "generating"
    /\ query' = "answered"
    /\ UNCHANGED batchVars

\* main.py:106-107  ask_question raised: HTTPException 500
QueryFault ==
    /\ query \in {"retrieving", "generating"}
    /\ query' = "failed"
    /\ UNCHANGED batchVars

QueryNext ==
    \/ Next
    \/ QueryStart
    \/ QueryRetrieved
    \/ QueryAnswered
    \/ QueryFault

\* the batches of the runs with a query: the short batches, the batch of one
\* repeated filename that is longest, and the two batches at the size limit
QueryInit ==
    /\ Init
    /\ files \in SeqsUpTo(Filenames, ShortFiles)
            \cup {Uniform("a.pdf", MaxFiles)}
            \cup {Uniform(LongName, MAX_BATCH), Uniform(LongName, MAX_BATCH + 1)}

QuerySpec == QueryInit /\ [][QueryNext]_vars

---------------------------------------------------------------------------
(* Fairness: the event loop keeps running ready tasks, and every stage call   *)
(* eventually returns or raises.  Cancellation of the request and the        *)
(* choice between a stage's outcomes are not forced.                         *)

StartSome ==
    \E j \in Jobs : StartReject(j) \/ StartCopyFault(j) \/ StartAcquire(j) \/ StartWait(j)

JobStep ==
    \E j \in Jobs :
        \/ Resume(j)
        \/ IngestOk(j)
        \/ StageFault(j)
        \/ ParseOk(j)
        \/ CancelAtGate(j)
        \/ CancelInBlock(j)

\* the batches of the liveness check: the short batches, the batch of one
\* repeated filename that is longest, and the two batches at the size limit
FairBatches ==
    SeqsUpTo(Filenames, ShortFiles)
        \cup {Uniform("a.pdf", MaxFiles)}
        \cup {Uniform(LongName, MAX_BATCH), Uniform(LongName, MAX_BATCH + 1)}

FairInit == Init /\ files \in FairBatches

FairSpec ==
    /\ FairInit
    /\ [][Next]_vars
    /\ WF_vars(StartSome)
    /\ WF_vars(BatchReturn \/ BatchCancelled)
    /\ WF_vars(JobStep)

---------------------------------------------------------------------------
(* upload_resume: an /upload request served beside the batch; its task goes *)
(* through the same process_single_resume and the same semaphore             *)

UploadNext ==
    \/ Next
    \/ StartReject(UploadJob)
    \/ StartCopyFault(UploadJob)
    \/ StartAcquire(UploadJob)
    \/ StartWait(UploadJob)
    \/ Resume(UploadJob)
    \/ IngestOk(UploadJob)
    \/ StageFault(UploadJob)
    \/ ParseOk(UploadJob)

\* the batches of the runs with an /upload request: as many tasks as the
\* semaphore admits, so that with the upload's task one task waits; a batch
\* that is rejected for its filename; the batch above the size limit
UploadBatches ==
    { Uniform("a.pdf", CONCURRENCY_LIMIT),
      Uniform(LongName, 1),
      Uniform(LongName, MAX_BATCH + 1) }

UploadInit == files \in UploadBatches /\ single \in Filenames /\ AtStart

UploadSpec == UploadInit /\ [][UploadNext]_vars

---------------------------------------------------------------------------
(* A batch with two tasks at the gate *)

\* the batch of one repeated filename with two more tasks than the semaphore
\* admits, a batch that is rejected for its filename, and the batch above the
\* size limit
FifoBatches ==
    { Uniform("a.pdf", CONCURRENCY_LIMIT + 2),
      Uniform(LongName, 1),
      Uniform(LongName, MAX_BATCH + 1) }

FifoInit == files \in FifoBatches /\ single = "" /\ AtStart

FifoSpec == FifoInit /\ [][Next]_vars

---------------------------------------------------------------------------
(* Claims *)

Holding == {j \in Jobs : pc[j] \in InBlock}

Saved == {j \in Jobs : pc[j] \in {"waiting", "woken", "ingest", "parse"}}

\* C1: in every reachable state at most CONCURRENCY_LIMIT tasks are inside the
\* `async with semaphore` block.
C1_AtMostLimitInside == Cardinality(Holding) <= CONCURRENCY_LIMIT

\* the block is full and another task waits at the gate
C1_Witness ==
    /\ Cardinality(Holding) = CONCURRENCY_LIMIT
    /\ \E j \in Jobs : pc[j] = "waiting"

\* C2 as claimed: the list a batch returns has one entry per submitted file.
C2_OneOutcomePerInput == batch = "returned" => Len(final_results) = Len(files)

\* C2 amended: the list a batch returns has exactly one entry per task that
\* returned a record, and none for a task that ended in an exception.
C2_OneEntryPerSuccess ==
    batch = "returned" =>
        /\ Len(final_results) = Cardinality({j \in Jobs : pc[j] = "ok"})
        /\ \A j \in Jobs :
            Cardinality({i \in 1..Len(final_results) : final_results[i] = j})
                = IF pc[j] = "ok" THEN 1 ELSE 0

\* a returned batch with a record and a dropped failure
C2_Witness ==
    /\ batch = "returned"
    /\ \E j, k \in Jobs : pc[j] = "ok" /\ pc[k] = "failed"
    /\ Len(final_results) < Len(files)

\* C3: the step in which a task's parse stage fails leaves every other task,
\* the semaphore, the deque and the files exactly as the step in which that
\* parse stage succeeds would: no other task's outcome depends on it.
C3_ParseFailureIsolated ==
    [][\A j \in Jobs :
        (pc[j] = "parse" /\ pc'[j] = "failed") =>
            LET r == release(value, [pc EXCEPT ![j] = "ok"], cancelReq, waiters)
            IN  /\ \A k \in Jobs \ {j} :
                    /\ pc'[k] = r.pc[k]
                    /\ cancelReq'[k] = cancelReq[k]
                    /\ acquires'[k] = acquires[k]
                    /\ releases'[k] = releases[k]
                /\ value' = r.value
                /\ waiters' = waiters
                /\ fs' = [fs EXCEPT ![PathOf(j)] = 0]
                /\ removes' = IF fs[PathOf(j)] # 0 THEN removes + 1 ELSE removes
                /\ batch' = batch]_vars

\* one task failed, in parse, and another task of the batch returned its record
C3_Witness ==
    /\ lastFault = "parse"
    /\ Cardinality({j \in Jobs : pc[j] = "failed"}) = 1
    /\ \E k \in Jobs : pc[k] = "ok"

\* the tasks that ended after they created their temp file
EndedAfterSave == {j \in Jobs : pc[j] \in {"ok", "failed", "crashed", "cancelled"}}

\* C4 as claimed: no task that ended after it created its temp file has left
\* the file behind, and once every task has ended os.remove was called once
\* for each of them.
C4_ReleasedExactlyOnce ==
    /\ \A j \in EndedAfterSave : fs[PathOf(j)] # j
    /\ AllDone => removes = Cardinality(EndedAfterSave)

\* C5 as claimed: the temp file of a task that saved it and has not ended
\* exists and still holds what that task wrote.
C5_ExclusiveOwnership == \A j \in Saved : fs[PathOf(j)] = j

\* C6: a batch above the limit is rejected with no task started, no file
\* written and the semaphore untouched; a batch of exactly the limit is not
\* rejected.
C6_OversizeRejectedUpFront ==
    /\ Len(files) > MAX_BATCH =>
        /\ batch \in {"idle", "rejected"}
        /\ \A j \in Jobs : pc[j] = "new" /\ acquires[j] = 0
        /\ \A p \in Paths : fs[p] = 0
        /\ value = CONCURRENCY_LIMIT
        /\ waiters = <<>>
    /\ Len(files) <= MAX_BATCH => batch # "rejected"

\* the oversize batch was rejected
C6_Witness == Len(files) = MAX_BATCH + 1 /\ batch = "rejected"

\* C7: a task whose filename does not end in ".pdf" writes no file, never
\* joins the deque and never acquires or releases the semaphore.
C7_NonPdfRejectedBeforeAllocation ==
    \A j \in Jobs :
        ~EndsWithPdf(files[j]) =>
            /\ pc[j] \in {"new", "rejected", "cancelled_unstarted"}
            /\ \A p \in Paths : fs[p] # j
            /\ \A i \in 1..Len(waiters) : waiters[i] # j
            /\ acquires[j] = 0 /\ releases[j] = 0

\* a task was rejected for its filename while another task holds a slot
C7_Witness ==
    \E j, k \in Jobs : pc[j] = "rejected" /\ ~EndsWithPdf(files[j]) /\ pc[k] \in InBlock

\* C8: under the fairness of FairSpec an accepted batch reaches the state in
\* which every task has ended, none is left at the gate, and every task that
\* passed the filename check and the save, and was not cancelled by the
\* caller, got its slot.
C8_NoStarvation ==
    (batch = "gathering") ~>
        /\ AllDone
        /\ waiters = <<>>
        /\ \A j \in Jobs : pc[j] \in {"ok", "failed"} <=> acquires[j] = 1 /\ pc[j] # "cancelled"

\* a task that waited at the gate returned its record
C8_Witness ==
    \E j \in Jobs : pc[j] = "ok" /\ acquires[j] = 1 /\ j > CONCURRENCY_LIMIT

\* C9: the counter of the semaphore stays within 0..CONCURRENCY_LIMIT.
C9_CounterInRange == 0 <= value /\ value <= CONCURRENCY_LIMIT

\* the counter is 0 while a cancelled task is still in the deque
C9_Witness ==
    /\ value = 0
    /\ \E j \in Jobs : pc[j] = "waiting" /\ cancelReq[j]

\* C10: a task releases at most as often as it acquired, acquires at most
\* once, holds a slot exactly while it is inside the block, and has released
\* what it acquired once it ended; when every task has ended the counter
\* equals CONCURRENCY_LIMIT.
C10_AcquireReleasePaired ==
    /\ \A j \in Jobs :
        /\ releases[j] <= acquires[j]
        /\ acquires[j] <= 1
        /\ (acquires[j] - releases[j] = 1) <=> (pc[j] \in InBlock)
        /\ IsTerminal(j) => releases[j] = acquires[j]
    /\ AllDone => value = CONCURRENCY_LIMIT

\* every task ended, among them one that returned, one that failed and one
\* that was cancelled inside the block
C10_Witness ==
    /\ AllDone
    /\ \E j, k, l \in Jobs :
        /\ pc[j] = "ok"
        /\ pc[k] = "failed"
        /\ pc[l] = "cancelled" /\ releases[l] = 1

\* C11: the records of a returned batch stand in the order in which their
\* files were submitted, whatever the order in which the tasks ended.
C11_OrderPreserved ==
    batch = "returned" =>
        \A a, b \in 1..Len(final_results) :
            a < b => final_results[a] < final_results[b]

\* a batch returned the records of all its tasks, and one of them had returned
\* its record before a task created earlier had ended
C11_Witness ==
    /\ batch = "returned"
    /\ overtook
    /\ Len(files) >= 2
    /\ \A j \in Jobs : pc[j] = "ok"

\* C12: when every file of a batch is a PDF, no save and no stage raised and
\* the batch returned, its result has one record per file, and the record of
\* task j is the one the parse stage of task j returned; the batch may be
\* longer than CONCURRENCY_LIMIT.
C12_AllSucceed ==
    ( /\ batch = "returned"
      /\ lastFault = "none"
      /\ \A j \in Jobs : EndsWithPdf(files[j]) /\ pc[j] # "crashed" )
        => final_results = [j \in Jobs |-> j]

\* a batch longer than CONCURRENCY_LIMIT returned the record of every task
C12_Witness ==
    /\ batch = "returned"
    /\ lastFault = "none"
    /\ Len(files) > CONCURRENCY_LIMIT
    /\ \A j \in Jobs : pc[j] = "ok"
    /\ Len(final_results) = Len(files)

\* C13: a batch has returned only when every task has ended, and none of them
\* was cancelled on the way; under the fairness of FairSpec an accepted batch
\* does return, however many of its tasks fail, unless the caller cancels the
\* request.
C13_ReturnsAfterAllEnded ==
    /\ [](batch = "returned" =>
            /\ AllDone
            /\ \A j \in Jobs :
                /\ ~cancelReq[j]
                /\ pc[j] \notin {"cancelled", "cancelled_unstarted"})
    /\ (batch = "gathering") ~> (batch \in {"returned", "cancelling"})

\* a batch of several tasks returned although every task failed in a stage
C13_Witness ==
    /\ batch = "returned"
    /\ Len(files) >= 2
    /\ \A j \in Jobs : pc[j] = "failed"
    /\ final_results = <<>>

\* C14: once CancelledError has been delivered to a task, wherever the task
\* was suspended (in acquire, in ingest_pdf or in parse_resume), the path of
\* its temp file is absent.
C14_CancelledCleansUp ==
    \A j \in Jobs : pc[j] = "cancelled" => fs[PathOf(j)] = 0

\* every task of a cancelled batch has ended, one was cancelled at the gate,
\* one inside the block, and no temp file is left
C14_Witness ==
    /\ batch = "cancelled"
    /\ \E j, k \in Jobs :
        /\ pc[j] = "cancelled" /\ acquires[j] = 0
        /\ pc[k] = "cancelled" /\ releases[k] = 1
    /\ \A p \in Paths : fs[p] = 0

\* C15: no step of query_resume touches the semaphore, the deque, a temp
\* file or a task, and a query whose answer is due can return it in every
\* state, also while every slot is held and a task waits at the gate.
C15_QueryUngated ==
    /\ [](query = "generating" => ENABLED QueryAnswered)
    /\ [][query' # query =>
            /\ UNCHANGED <<value, waiters, fs, removes, acquires, releases>>
            /\ UNCHANGED <<pc, cancelReq, batch, final_results>>]_vars

\* a query is in flight and can return its answer while every slot is held and
\* a task waits at the gate
C15_Witness ==
    /\ query = "generating"
    /\ ENABLED QueryAnswered
    /\ value = 0
    /\ Cardinality(Holding) = CONCURRENCY_LIMIT
    /\ \E j \in Jobs : pc[j] = "waiting"

\* C16: the semaphore wakes its waiters in the order in which they joined the
\* deque: no step wakes a waiter while a waiter that joined before it, and
\* whose cancellation was not requested, stays waiting.
C16_FifoAdmission ==
    [][\A a, b \in 1..Len(waiters) :
        ( /\ a < b
          /\ pc[waiters[b]] = "waiting"
          /\ pc'[waiters[b]] = "woken" )
            => ~( /\ pc[waiters[a]] = "waiting"
                  /\ ~cancelReq[waiters[a]]
                  /\ pc'[waiters[a]] = "waiting" )]_vars

\* two tasks joined the deque; the first was woken, the second still waits,
\* and no cancellation was requested
C16_Witness ==
    /\ Len(waiters) >= 2
    /\ pc[waiters[1]] = "woken"
    /\ pc[waiters[2]] = "waiting"
    /\ \A j \in Jobs : ~cancelReq[j]

\* C17: within a task the stages run in sequence: ingest_pdf is entered from
\* the gate only, parse_resume is entered only in the step in which the
\* task's ingest_pdf returned, a task whose ingest_pdf raised ends there, and
\* a task that ended takes no further step.
C17_StagesInSequence ==
    [][\A j \in Jobs :
        /\ (pc[j] # "ingest" /\ pc'[j] = "ingest") => pc[j] \in {"new", "woken"}
        /\ (pc[j] # "parse" /\ pc'[j] = "parse") =>
                (pc[j] = "ingest" /\ lastFault' = lastFault)
        /\ (pc[j] = "ingest" /\ pc'[j] \notin {"ingest", "parse"}) =>
                pc'[j] \in {"failed", "cancelled"}
        /\ IsTerminal(j) => pc'[j] = pc[j]]_vars

\* every task ended; one failed, in ingest_pdf, and another went through both
\* stages
C17_Witness ==
    /\ AllDone
    /\ lastFault = "ingest"
    /\ Cardinality({j \in Jobs : pc[j] = "failed"}) = 1
    /\ \E k \in Jobs : pc[k] = "ok"

\* C18 as claimed: a task that ended, unless it was cancelled, returned its
\* record or raised an HTTPException (400 or 500), and a query that ended
\* returned its answer or raised an HTTPException (500).
C18_NoRawFault ==
    /\ \A j \in Jobs :
        IsTerminal(j) =>
            pc[j] \in {"ok", "rejected", "failed", "cancelled", "cancelled_unstarted"}
    /\ query \in {"idle", "retrieving", "generating", "answered", "failed"}

C20_GlobalCap ==
    Cardinality({j \in Tasks : pc[j] = "ingest"})
        + Cardinality({j \in Tasks : pc[j] = "parse"}) <= CONCURRENCY_LIMIT

\* the task of the /upload request and four tasks of the batch fill the
\* semaphore, some in ingest_pdf and some in parse_resume, and the fifth task
\* of the batch waits
C20_Witness ==
    /\ single # ""
    /\ pc[UploadJob] \in InBlock
    /\ Cardinality({j \in Tasks : pc[j] \in InBlock}) = CONCURRENCY_LIMIT
    /\ \E j, k \in Tasks : pc[j] = "ingest" /\ pc[k] = "parse"
    /\ \E j \in Jobs : pc[j] = "waiting"

====
